---- MODULE Spec2Model ----
(***************************************************************************)
(* Model of scripts/generate_threat_intelligence_db.py: the generator that *)
(* writes the threat database file (header, PHONE, DOMAIN, SIG and META    *)
(* records) until a target size is reached.                                *)
(*                                                                         *)
(* The file on disk is a sequence of extents.  An extent is a maximal run   *)
(* of consecutive records of one kind written by one run of the script: it *)
(* keeps the kind, the number of records, their length in bytes and the    *)
(* run that wrote them.  Record contents are random and are not kept; the  *)
(* lengths are the ones the code computes.                                 *)
(***************************************************************************)
EXTENDS Integers, Sequences, FiniteSets, TLC

VARIABLES
    TARGET_SIZE_BYTES,  \* module constant of the script, an input of the model
    phone_count,        \* main: phone_count
    domain_count,       \* main: domain_count
    sig_count,          \* main: sig_count
    run,                \* number of the current run of the script
    pc,                 \* position of main
    handle,             \* the file object f: "none", "open" or "closed"
    file,               \* the output file on disk, a sequence of extents
    total,              \* main: total
    remaining,          \* main: remaining, <<>> while unbound, else <<n>>
    i,                  \* loop index of the running generator
    written             \* local counter of the running generator

vars == <<TARGET_SIZE_BYTES, phone_count, domain_count, sig_count, run, pc,
          handle, file, total, remaining, i, written>>

inputs == <<TARGET_SIZE_BYTES, phone_count, domain_count, sig_count>>

----------------------------------------------------------------------------
(* Bounds of the model *)

MaxCount == 1
MaxTargetBlocks == 2
MaxTargetRecords == 2
MaxRuns == 2
MaxBlocks == 2

----------------------------------------------------------------------------
(* Constant tables and sizes of the script *)

COUNTRY_PREFIXES ==
    {"234", "233", "225", "221", "880", "92", "91", "63", "855", "856",
     "95", "66", "84", "62", "60", "81", "82", "98", "966", "971",
     "20", "27", "254", "237", "212", "351", "34", "39", "33", "49",
     "31", "32", "48", "358", "353", "44", "61", "64", "65", "55",
     "52", "57", "58", "54", "51", "56", "46", "47", "421", "86",
     "7", "380", "90"}

DOMAIN_PATTERNS ==
    {"paypal", "amazon", "google", "microsoft", "apple", "netflix", "bank",
     "secure", "login", "verify", "account", "support", "official", "gov",
     "irs", "hmrc", "fedex", "ups", "dhl", "usps", "royal-mail", "customs",
     " bitcoin", "crypto", "wallet", "investment", "refund", "prize"}

tlds == {".com", ".net", ".org", ".tk", ".ml", ".ga", ".xyz", ".top", ".click"}

subs == {"", "secure-", "login-", "verify-", "account-", "support-"}

phrases ==
    {"otp", "verification code", "account locked", "urgent", "click here",
     "congratulations", "you have won", "claim your", "free gift", "bank",
     "pay now", "send money", "wire transfer", "bitcoin", "crypto",
     "refund", "overcharge", "verify", "confirm", "suspended", "expires"}

\* random.randint(6, 12)
SuffixLens == 6..12

\* outcomes of random.randint(1, 999) at the digit-count boundaries
DomainNumbers == {1, 9, 10, 99, 100, 999}

\* outcomes of random.randint(1000, 99999) at the digit-count boundaries
PhraseNumbers == {1000, 9999, 10000, 99999}

block_size == 4096

\* size of a SHA-256 digest in bytes
sha256_digest_size == 32

\* size of struct.pack("<Q", 0)
pack_Q_size == 8

Min(a, b) == IF a < b THEN a ELSE b

----------------------------------------------------------------------------
(* Records *)

\* b"DFS_THREAT_DB_V1\x00" + struct.pack("<Q", 0)
header_len == Len("DFS_THREAT_DB_V1") + 1 + pack_Q_size

\* f"PHONE:{prefix}{suffix}\n": the suffix is suffix_len digits on both
\* branches (one digit repeated suffix_len times, or suffix_len digits joined)
phone_record_len(prefix, suffix_len, repeated) ==
    LET suffix == IF repeated THEN Len("0") * suffix_len ELSE suffix_len
    IN  Len("PHONE:") + Len(prefix) + suffix + Len("\n")

PhoneRecordLens ==
    {phone_record_len(p, s, r) :
        p \in COUNTRY_PREFIXES, s \in SuffixLens, r \in BOOLEAN}

\* f"DOMAIN:{sub}{base}{n}{tld}\n"; the o->0, l->1, a->4 substitution
\* replaces one character by one character and keeps the length of base
domain_record_len(sub, base, n, tld) ==
    Len("DOMAIN:") + Len(sub) + Len(base) + Len(ToString(n)) + Len(tld)
        + Len("\n")

DomainRecordLens ==
    {domain_record_len(s, b, n, t) :
        s \in subs, b \in DOMAIN_PATTERNS, n \in DomainNumbers, t \in tlds}

\* hashlib.sha256(s.encode()).digest(): 32 bytes; the byte values stand in
\* for the digest, whose content no property of the writer depends on
sha256(s) == [k \in 1..sha256_digest_size |-> (Len(s) * k) % 256]

phrase_hash_full(s) == sha256(s)

phrase_hash(s) == SubSeq(sha256(s), 1, 16)

\* b"SIG:" + sig + b"\n" for phrase + f"_{n}"
sig_record_len(phrase, n) ==
    Len("SIG:") + Len(phrase_hash(phrase \o "_" \o ToString(n))) + Len("\n")

SigRecordLens ==
    {sig_record_len(p, n) : p \in phrases, n \in PhraseNumbers}

\* f.write(record) on the file content f: the record extends the last
\* extent when it has the same kind and run, and starts a new extent otherwise
write(f, kind, len) ==
    IF f # <<>> /\ f[Len(f)].kind = kind /\ f[Len(f)].run = run
    THEN [f EXCEPT ![Len(f)].n = @ + 1, ![Len(f)].len = @ + len]
    ELSE Append(f, [kind |-> kind, n |-> 1, len |-> len, run |-> run])

RECURSIVE SumLen(_)
SumLen(s) == IF s = <<>> THEN 0 ELSE s[1].len + SumLen(Tail(s))

FileSize == SumLen(file)

OfKind(kinds) == SelectSeq(file, LAMBDA e : e.kind \in kinds)

BytesOf(kinds) == SumLen(OfKind(kinds))

RECURSIVE SumN(_)
SumN(s) == IF s = <<>> THEN 0 ELSE s[1].n + SumN(Tail(s))

NumOf(kind) == SumN(OfKind({kind}))

\* bytes written by the three fixed-count phases
ThreePhaseBytes == BytesOf({"PHONE", "DOMAIN", "SIG"})

Rank(kind) ==
    CASE kind = "HEADER" -> 0
      [] kind = "PHONE"  -> 1
      [] kind = "DOMAIN" -> 2
      [] kind = "SIG"    -> 3
      [] kind = "META"   -> 4

HeaderExtent == [kind |-> "HEADER", n |-> 1, len |-> header_len, run |-> run]

Abs(x) == IF x < 0 THEN 0 - x ELSE x

CeilDiv(a, b) == (a + b - 1) \div b

----------------------------------------------------------------------------
(* main *)

Terminal == {"done", "aborted"}

\* the order of the calls in the with-block of main
NextPhase_swapped(phase) ==
    CASE phase = "header" -> "domain"
      [] phase = "domain" -> "phone"
      [] phase = "phone"  -> "sig"
      [] phase = "sig"    -> "remaining"

NextPhase(phase) ==
    CASE phase = "header" -> "phone"
      [] phase = "phone"  -> "domain"
      [] phase = "domain" -> "sig"
      [] phase = "sig"    -> "remaining"

\* open(output_path, 'wb') truncates; 'ab' would keep the old content
open_ab(old) == old

open_wb(old) == <<>>

\* mkdir, total = 0, open(output_path, 'wb')
Open ==
    /\ pc = "start"
    /\ total' = 0
    /\ file' = open_wb(file)
    /\ handle' = "open"
    /\ pc' = "header"
    /\ UNCHANGED <<inputs, run, remaining, i, written>>

\* open raises (permission denied, invalid path): the with-block is not
\* entered and the file is left as it was
OpenFails ==
    /\ pc = "start"
    /\ pc' = "aborted"
    /\ UNCHANGED <<inputs, run, handle, file, total, remaining, i, written>>

\* f.write(header); total is not touched
WriteHeader ==
    /\ pc = "header"
    /\ file' = write(file, "HEADER", header_len)
    /\ pc' = NextPhase("header")
    /\ i' = 0
    /\ written' = 0
    /\ UNCHANGED <<inputs, run, handle, total, remaining>>

\* one iteration of a fixed-count generator
WriteRecord(phase, kind, count, lens) ==
    /\ pc = phase
    /\ i < count
    /\ \E len \in lens :
          /\ file' = write(file, kind, len)
          /\ written' = written + len
    /\ i' = i + 1
    /\ UNCHANGED <<inputs, run, pc, handle, total, remaining>>

\* return written; total += <returned value>
GeneratorReturn(phase, count) ==
    /\ pc = phase
    /\ i = count
    /\ total' = total + written
    /\ pc' = NextPhase(phase)
    /\ i' = 0
    /\ written' = 0
    /\ UNCHANGED <<inputs, run, handle, file, remaining>>

PhoneWrite == WriteRecord("phone", "PHONE", phone_count, PhoneRecordLens)

PhoneReturn == GeneratorReturn("phone", phone_count)

DomainWrite == WriteRecord("domain", "DOMAIN", domain_count, DomainRecordLens)

DomainReturn == GeneratorReturn("domain", domain_count)

SigWrite == WriteRecord("sig", "SIG", sig_count, SigRecordLens)

SigReturn == GeneratorReturn("sig", sig_count)

\* remaining = TARGET_SIZE_BYTES - total
remaining_flipped(target, tot) == tot - target

remaining_of(target, tot) == target - tot

\* remaining = ...; if remaining > 0: call generate_metadata_blocks
ComputeRemaining ==
    /\ pc = "remaining"
    /\ LET r == remaining_of(TARGET_SIZE_BYTES, total)
       IN  /\ remaining' = <<r>>
           /\ pc' = IF r > 0 THEN "meta" ELSE "close"
    /\ i' = 0
    /\ written' = 0
    /\ UNCHANGED <<inputs, run, handle, file, total>>

----------------------------------------------------------------------------
(* generate_metadata_blocks *)

\* while written < remaining
MetaLoopCond_once(w, rem) == w = 0 /\ w < rem

MetaLoopCond_whole(w, rem) == w + block_size <= rem

MetaLoopCond(w, rem) == w < rem

\* to_write = min(block_size - 6, remaining - written)
to_write_nooverhead(w, rem) == Min(block_size, rem - w)

to_write(w, rem) == Min(block_size - 6, rem - w)

\* block = b"META:" + os.urandom(to_write); f.write(block + b"\n");
\* written += len(block) + 1
MetaBlock ==
    /\ pc = "meta"
    /\ MetaLoopCond(written, remaining[1])
    /\ LET block == Len("META:") + to_write(written, remaining[1])
       IN  /\ file' = write(file, "META", block + Len("\n"))
           /\ written' = written + block + 1
    /\ UNCHANGED <<inputs, run, pc, handle, total, remaining, i>>

\* return written; total += <returned value>
MetaReturn ==
    /\ pc = "meta"
    /\ ~MetaLoopCond(written, remaining[1])
    /\ total' = total + written
    /\ pc' = "close"
    /\ UNCHANGED <<inputs, run, handle, file, remaining, i, written>>

----------------------------------------------------------------------------
(* leaving the with-block *)

\* the with-block ends: f is closed; stat, prints, return 0
Close ==
    /\ pc = "close"
    /\ handle' = "closed"
    /\ pc' = "done"
    /\ UNCHANGED <<inputs, run, file, total, remaining, i, written>>

WritePending ==
    \/ pc = "header"
    \/ pc = "phone" /\ i < phone_count
    \/ pc = "domain" /\ i < domain_count
    \/ pc = "sig" /\ i < sig_count
    \/ pc = "meta" /\ MetaLoopCond(written, remaining[1])

\* what the exit of the with-block does to f when an exception leaves it
with_exit_leak(h) == h

with_exit(h) == "closed"

\* f.write raises OSError: nothing is appended, the exception leaves the
\* with-block, which closes f, and ends the run
WriteFails ==
    /\ WritePending
    /\ handle' = with_exit(handle)
    /\ pc' = "aborted"
    /\ UNCHANGED <<inputs, run, file, total, remaining, i, written>>

\* the script is started again
NewRun ==
    /\ pc \in Terminal
    /\ run < MaxRuns
    /\ run' = run + 1
    /\ pc' = "start"
    /\ handle' = "none"
    /\ total' = 0
    /\ remaining' = <<>>
    /\ i' = 0
    /\ written' = 0
    /\ UNCHANGED <<inputs, file>>

----------------------------------------------------------------------------
(* Specifications *)

\* targets of whole blocks plus whole signature records
sig_len == CHOOSE n \in SigRecordLens : TRUE

Targets ==
    {b * block_size + k * sig_len :
        b \in 0..MaxTargetBlocks, k \in 0..MaxTargetRecords}

Init ==
    /\ TARGET_SIZE_BYTES \in Targets
    /\ phone_count \in 0..MaxCount
    /\ domain_count \in 0..MaxCount
    /\ sig_count \in 0..MaxCount
    /\ run = 1
    /\ pc = "start"
    /\ handle = "none"
    /\ file = <<>>
    /\ total = 0
    /\ remaining = <<>>
    /\ i = 0
    /\ written = 0

Next ==
    \/ Open
    \/ OpenFails
    \/ WriteHeader
    \/ PhoneWrite
    \/ PhoneReturn
    \/ DomainWrite
    \/ DomainReturn
    \/ SigWrite
    \/ SigReturn
    \/ ComputeRemaining
    \/ MetaBlock
    \/ MetaReturn
    \/ Close
    \/ WriteFails
    \/ NewRun

Spec == Init /\ [][Next]_vars

\* generate_metadata_blocks(remaining, f) on its own, for every remaining in
\* the range, on an empty file
MetaInit ==
    /\ TARGET_SIZE_BYTES = 0
    /\ phone_count = 0
    /\ domain_count = 0
    /\ sig_count = 0
    /\ run = 1
    /\ pc = "meta"
    /\ handle = "open"
    /\ file = <<>>
    /\ total = 0
    /\ remaining \in {<<r>> : r \in (0 - MaxBlocks)..((MaxBlocks + 1) * block_size)}
    /\ i = 0
    /\ written = 0

MetaNext ==
    \/ MetaBlock
    \/ MetaReturn

MetaSpec == MetaInit /\ [][MetaNext]_vars /\ WF_vars(MetaNext)

----------------------------------------------------------------------------
(* Properties *)

\* C1: for every remaining > 0, generate_metadata_blocks(remaining, f)
\* returns remaining exactly and appends exactly remaining bytes to the file
\* (tag and terminator included).
C1_ExactFill ==
    (pc = "close" /\ remaining[1] > 0) =>
        (total = remaining[1] /\ FileSize = remaining[1])

\* C2: the file always holds the header first and once, followed by the
\* records in the order phone, domain, signature, metadata: no record of an
\* earlier kind follows a record of a later kind.
C2_RecordOrder ==
    file # <<>> =>
        /\ file[1].kind = "HEADER"
        /\ file[1].n = 1
        /\ \A j \in 1..(Len(file) - 1) :
              Rank(file[j].kind) < Rank(file[j + 1].kind)

C2_Witness ==
    /\ pc = "done"
    /\ Len(file) = 5
    /\ NumOf("META") >= 2

\* C3: once the three fixed-count phases have returned with the target not
\* above their output, remaining is <= 0, the metadata generator is not
\* entered, no META block is in the file, and a completed run leaves a file
\* strictly larger than the target.
C3_MetaSkipped ==
    (remaining # <<>> /\ TARGET_SIZE_BYTES <= ThreePhaseBytes) =>
        /\ remaining[1] <= 0
        /\ pc # "meta"
        /\ NumOf("META") = 0
        /\ pc = "done" => FileSize > TARGET_SIZE_BYTES

C3_Witness ==
    /\ pc = "done"
    /\ remaining = <<0>>
    /\ TARGET_SIZE_BYTES > 0
    /\ NumOf("META") = 0

\* C4: a completed run whose target is above the output of the three
\* fixed-count phases leaves the header, the records of the three phases and
\* at least one metadata block, and the file size differs from the target by
\* less than one block of 4096 bytes.
C4_PaddedToTarget ==
    (pc = "done" /\ TARGET_SIZE_BYTES > ThreePhaseBytes) =>
        /\ file[1] = HeaderExtent
        /\ NumOf("PHONE") = phone_count
        /\ NumOf("DOMAIN") = domain_count
        /\ NumOf("SIG") = sig_count
        /\ NumOf("META") >= 1
        /\ FileSize = header_len + ThreePhaseBytes + BytesOf({"META"})
        /\ Abs(FileSize - TARGET_SIZE_BYTES) < block_size

C4_Witness ==
    /\ pc = "done"
    /\ TARGET_SIZE_BYTES >= 2 * block_size
    /\ phone_count = 1
    /\ domain_count = 1
    /\ sig_count = 1
    /\ NumOf("META") = 2

\* C5: once the file is open its length never decreases, and a completed run
\* leaves a file at least as large as the header plus the three fixed-count
\* phases and at least as large as the target.
C5_SizeBound ==
    /\ [][pc # "start" => FileSize' >= FileSize]_vars
    /\ [](pc = "done" =>
            /\ FileSize >= header_len + ThreePhaseBytes
            /\ FileSize >= TARGET_SIZE_BYTES)

C5_Witness ==
    /\ pc = "done"
    /\ remaining # <<>>
    /\ remaining[1] < 0
    /\ FileSize = header_len + ThreePhaseBytes
    /\ FileSize > TARGET_SIZE_BYTES

\* C6: the handle is acquired only by the open at the start of a run and is
\* open throughout the with-block; in every terminal state, after completion
\* or after a failed write, it is not open; nothing is written once it is
\* closed.
C6_HandleReleased ==
    /\ [](pc \in Terminal => handle # "open")
    /\ [](pc \notin (Terminal \cup {"start"}) => handle = "open")
    /\ [][(handle # "open" /\ handle' = "open") =>
            (pc = "start" /\ handle = "none")]_vars
    /\ [][handle = "closed" => file' = file]_vars

C6_Witness ==
    /\ pc = "aborted"
    /\ handle = "closed"
    /\ NumOf("META") >= 1

\* C7: whatever file earlier runs left, once a run has opened the file it
\* holds only what this run wrote, and a completed run leaves a file that
\* starts with this run's 25-byte header.
C7_FreshFile ==
    /\ handle # "none" => \A j \in 1..Len(file) : file[j].run = run
    /\ pc = "done" => (file # <<>> /\ file[1] = HeaderExtent /\ file[1].len = 25)

C7_Witness ==
    /\ pc = "done"
    /\ run >= 2
    /\ Len(file) >= 3

\* C8: every signature record is 4 + 16 + 1 = 21 bytes, and
\* generate_phrase_signatures(count, f) returns 21 * count.
C8_SigRecord ==
    /\ [](\A j \in 1..Len(file) :
            file[j].kind = "SIG" => file[j].len = (4 + 16 + 1) * file[j].n)
    /\ [][(pc = "sig" /\ file' # file) =>
            FileSize' = FileSize + (4 + 16 + 1)]_vars
    /\ [][(pc = "sig" /\ pc' = "remaining") =>
            total' - total = (4 + 16 + 1) * sig_count]_vars

C8_Witness ==
    /\ pc = "remaining"
    /\ sig_count >= 1
    /\ NumOf("SIG") = sig_count

\* main is between two phases: a generator is about to start, or the last
\* one has returned
PhaseBoundary ==
    \/ pc \in {"phone", "domain", "sig"} /\ i = 0
    \/ pc \in {"remaining", "close", "done"}

\* C9: after the header write the running total is 25, and at every phase
\* boundary the running total equals the number of bytes in the file.
C9_TotalTracksFile ==
    /\ (pc = "phone" /\ i = 0) => total = 25
    /\ PhaseBoundary => total = FileSize

\* C10: the fill loop terminates; for remaining <= 0 it writes nothing and
\* returns 0; for remaining > 0 it runs ceil(remaining / 4096) iterations;
\* each iteration adds at least 7 and at most 4096 to written.
C10_FillLoop ==
    /\ <>(pc = "close")
    /\ [](pc = "close" =>
            IF remaining[1] <= 0
            THEN file = <<>> /\ total = 0
            ELSE NumOf("META") = CeilDiv(remaining[1], 4096))
    /\ [][(pc = "meta" /\ pc' = "meta") =>
            /\ NumOf("META")' = NumOf("META") + 1
            /\ written' - written >= 7
            /\ written' - written <= 4096]_vars

C10_Witness ==
    /\ pc = "close"
    /\ remaining[1] > 2 * block_size
    /\ NumOf("META") = 3
    /\ total >= remaining[1]

====
